---- MODULE Spec2Model ----
(***************************************************************************)
(* Weekly snack-delivery workbook converter.  Two deployments of the same   *)
(* algorithm exist in the repository: the stand-alone script (part_000,     *)
(* called "legacy" here) and the tabbed converter module (part_001, called  *)
(* "hyundai" here, its config.id).                                          *)
(*                                                                         *)
(* Text is modelled as sequences of one-character strings so that the      *)
(* regular expressions, trim, parseInt and date formatting of the code are *)
(* computed, not assumed.  The module is ASCII: the non-ASCII literals of  *)
(* the source are written with the stand-ins defined below.                *)
(***************************************************************************)
EXTENDS Integers, Sequences, FiniteSets, TLC, Bags

\* ------------------------------------------------------------------------
\* Stand-ins for the non-ASCII literals of the source
\* ------------------------------------------------------------------------
MARKER == "*"            \* U+203B, the store marker of extractStoreName
NYEON == "Y"             \* U+B144, the year suffix of the file name
WOL == "M"               \* U+C6D4, the month suffix of the file name
GYE == "#"               \* U+ACC4, the literal of a store subtotal row
dayNames == <<"Mon", "Tue", "Wed", "Thu", "Fri">>   \* the five weekday labels
OtherSheetName == "Summary"                          \* a sheet of another name
MAPPING_FAILED == <<"M","A","P","P","I","N","G","_","F","A","I","L","E","D">>
FailPrefix == <<"[", "f", "a", "i", "l", "]", " ">>  \* '[mapping failure] '
Variants == {"legacy", "hyundai"}

\* ------------------------------------------------------------------------
\* JavaScript values and the conversions the code applies to them
\* ------------------------------------------------------------------------
Null == [t |-> "null", n |-> 0, s |-> <<>>]
Undefined == [t |-> "undefined", n |-> 0, s |-> <<>>]
Num(k) == [t |-> "n", n |-> k, s |-> <<>>]
Str(cs) == [t |-> "s", n |-> 0, s |-> cs]
NaN == [nan |-> TRUE, n |-> 0]
Int32(k) == [nan |-> FALSE, n |-> k]

Digits == <<"0", "1", "2", "3", "4", "5", "6", "7", "8", "9">>
IsDigit(c) == \E d \in 1..10 : Digits[d] = c
DigitVal(c) == (CHOOSE d \in 1..10 : Digits[d] = c) - 1
IsSpace(c) == c \in {" ", "\t", "\n"}

Min(S) == CHOOSE x \in S : \A y \in S : x <= y
Max(S) == CHOOSE x \in S : \A y \in S : x >= y

RECURSIVE NatToStr(_)
NatToStr(k) ==
  IF k < 10 THEN <<Digits[k + 1]>>
  ELSE NatToStr(k \div 10) \o <<Digits[(k % 10) + 1]>>

\* String(v)
JSString(v) ==
  CASE v.t = "s" -> v.s
    [] v.t = "n" -> IF v.n < 0 THEN <<"-">> \o NatToStr(-v.n) ELSE NatToStr(v.n)
    [] v.t = "null" -> <<"n", "u", "l", "l">>
    [] OTHER -> <<"u", "n", "d", "e", "f", "i", "n", "e", "d">>

\* !!v
Truthy(v) ==
  CASE v.t = "s" -> v.s # <<>>
    [] v.t = "n" -> v.n # 0
    [] OTHER -> FALSE

\* the number of consecutive characters of s from index j on that satisfy
\* the whitespace test (0 when j is past the end)
RECURSIVE WsRun(_, _)
WsRun(s, j) == IF j <= Len(s) /\ IsSpace(s[j]) THEN 1 + WsRun(s, j + 1) ELSE 0

RECURSIVE DigitRun(_, _)
DigitRun(s, j) == IF j <= Len(s) /\ IsDigit(s[j]) THEN 1 + DigitRun(s, j + 1) ELSE 0

\* the value of the decimal digits s[i..j]
RECURSIVE DigitsToNat(_, _, _)
DigitsToNat(s, i, j) ==
  IF j < i THEN 0 ELSE DigitsToNat(s, i, j - 1) * 10 + DigitVal(s[j])

\* String.prototype.trim
Trim(s) ==
  LET keep == {i \in 1..Len(s) : ~IsSpace(s[i])}
  IN IF keep = {} THEN <<>> ELSE SubSeq(s, Min(keep), Max(keep))

\* parseInt(v): String(v), leading white space skipped, an optional sign,
\* then the longest prefix of decimal digits; NaN when there is no digit
parseDigits(s, q, d, negative) ==
  IF d = 0 THEN NaN
  ELSE Int32(IF negative THEN -DigitsToNat(s, q, q + d - 1)
             ELSE DigitsToNat(s, q, q + d - 1))
parseSigned(s, p, signed) ==
  parseDigits(s, IF signed THEN p + 1 ELSE p,
              DigitRun(s, IF signed THEN p + 1 ELSE p), signed /\ s[p] = "-")
parseFrom(s, p) == parseSigned(s, p, p <= Len(s) /\ s[p] \in {"-", "+"})
parseString(s) == parseFrom(s, 1 + WsRun(s, 1))
parseInt(v) == parseString(JSString(v))

isNaN(r) == r.nan
\* r || 0 of a parseInt result
orZero(r) == IF r.nan THEN 0 ELSE r.n
\* parseInt(v) || 0
parseIntOrZero(v) == orZero(parseInt(v))

\* ------------------------------------------------------------------------
\* ExcelCore: cell addresses and cell access
\* ------------------------------------------------------------------------
Letters == <<"A", "B", "C", "D", "E", "F", "G", "H", "I", "J", "K", "L", "M",
             "N", "O", "P", "Q", "R", "S", "T", "U", "V", "W", "X", "Y", "Z">>

\* the column letters of a 0-indexed column
RECURSIVE colStr(_)
colStr(c) ==
  LET rest == (c \div 26) - 1
  IN (IF rest >= 0 THEN colStr(rest) ELSE <<>>) \o <<Letters[(c % 26) + 1]>>

\* 0-indexed (row, col) -> the address, as <<column letters, 1-indexed row>>
encodeCell(row, col) == <<colStr(col), row + 1>>

\* a sheet is a function from the addresses of its non-empty cells to values
getCellValue(sheet, row, col) ==
  LET cellAddress == encodeCell(row - 1, col - 1)
  IN IF cellAddress \in DOMAIN sheet THEN sheet[cellAddress] ELSE Null

\* range.e.r + 1: the last occupied row, 1 for an empty sheet ('A1')
lastRow(sheet) ==
  IF DOMAIN sheet = {} THEN 1 ELSE Max({a[2] : a \in DOMAIN sheet})

\* ------------------------------------------------------------------------
\* Store blocks
\* ------------------------------------------------------------------------
\* whether the capture s[p..e] of /(.+?)\s*:/ can end at e: no line break in
\* it, and after the white space that follows it comes the colon
captureEndsAt(s, p, e) ==
  /\ \A j \in p..e : s[j] # "\n"
  /\ LET r == e + 1 + WsRun(s, e + 1) IN r <= Len(s) /\ s[r] = ":"

\* the capture group of the match of the store pattern that starts at the
\* marker s[i], as <<first, last>>, or <<>> when there is none: the white
\* space after the marker is skipped greedily (backing off one character at
\* a time), the captured name is the shortest that lets the rest match
captureFrom(s, i) ==
  LET w == WsRun(s, i + 1)
      ends(k) == {e \in (i + 1 + k)..Len(s) : captureEndsAt(s, i + 1 + k, e)}
      ks == {k \in 0..w : ends(k) # {}}
  IN IF ks = {} THEN <<>> ELSE <<i + 1 + Max(ks), Min(ends(Max(ks)))>>

\* cellValue.match(<marker>\s*(.+?)\s*:\s*\d*): the leftmost match
leftmostCapture(s, starts) ==
  IF starts = {} THEN <<>> ELSE captureFrom(s, Min(starts))
storeMatch(s) ==
  leftmostCapture(s, {i \in 1..Len(s) : s[i] = MARKER /\ captureFrom(s, i) # <<>>})

\* match ? match[1].trim() : null
trimmedCapture(s, match) ==
  IF match = <<>> THEN Null ELSE Str(Trim(SubSeq(s, match[1], match[2])))

extractStoreName(cellValue) ==
  IF ~Truthy(cellValue) \/ cellValue.t # "s" THEN Null
  ELSE IF \A i \in 1..Len(cellValue.s) : cellValue.s[i] # MARKER THEN Null
  ELSE trimmedCapture(cellValue.s, storeMatch(cellValue.s))

\* the column families: B and K in the legacy script, B, K and T in the
\* hyundai module, each with its fixed columns
ColB == 2
ColK == 11
ColT == 20
legacyFamilies ==
  << [colNo |-> ColB, colCategory |-> ColB + 2, colProduct |-> ColB + 3, colBox |-> ColB + 4],
     [colNo |-> ColK, colCategory |-> ColK + 2, colProduct |-> ColK + 3, colBox |-> ColK + 4] >>
hyundaiFamilies ==
  << [colNo |-> ColB, colAfternoon |-> ColB + 1, colProduct |-> ColB + 3, colBox |-> ColB + 4],
     [colNo |-> ColK, colAfternoon |-> ColK + 1, colProduct |-> ColK + 3, colBox |-> ColK + 4],
     [colNo |-> ColT, colAfternoon |-> ColT + 1, colProduct |-> ColT + 3, colBox |-> ColT + 4] >>
families(v) == IF v = "legacy" THEN legacyFamilies ELSE hyundaiFamilies

\* the block of family f anchored at a row, given its store name
blockOf(v, f, row, storeName) ==
  IF v = "legacy"
  THEN [storeName |-> storeName, row |-> row, colNo |-> f.colNo,
        colCategory |-> f.colCategory, colProduct |-> f.colProduct, colBox |-> f.colBox]
  ELSE [storeName |-> storeName, row |-> row, colNo |-> f.colNo,
        colAfternoon |-> f.colAfternoon, colProduct |-> f.colProduct, colBox |-> f.colBox]

\* the anchors of a sheet: the <<row, family>> pairs, over the rows 1 to
\* range.e.r + 1 and the families, whose cell holds a store name
anchorsOf(v, sheet) ==
  {a \in (1..lastRow(sheet)) \X (1..Len(families(v))) :
     Truthy(extractStoreName(getCellValue(sheet, a[1], families(v)[a[2]].colNo)))}

\* a faulty variant: family by family, within a family by row
RECURSIVE inScanOrder_byFamily(_)
inScanOrder_byFamily(S) ==
  IF S = {} THEN <<>>
  ELSE LET a == CHOOSE x \in S :
                  \A y \in S : x[2] < y[2] \/ (x[2] = y[2] /\ x[1] <= y[1])
       IN <<a>> \o inScanOrder_byFamily(S \ {a})
\* the order in which the loops meet them: by row, within a row by family
RECURSIVE inScanOrder(_)
inScanOrder(S) ==
  IF S = {} THEN <<>>
  ELSE LET a == CHOOSE x \in S :
                  \A y \in S : x[1] < y[1] \/ (x[1] = y[1] /\ x[2] <= y[2])
       IN <<a>> \o inScanOrder(S \ {a})

\* blocks.push for the anchors q, in their order
blocksOfAnchors(v, sheet, q) ==
  [i \in 1..Len(q) |->
     blockOf(v, families(v)[q[i][2]], q[i][1],
             extractStoreName(getCellValue(sheet, q[i][1],
                                           families(v)[q[i][2]].colNo)).s)]

findStoreBlocks(v, sheet) == blocksOfAnchors(v, sheet, inScanOrder(anchorsOf(v, sheet)))

\* ------------------------------------------------------------------------
\* Product lines of a block
\* ------------------------------------------------------------------------
maxProducts == 25        \* the default of extractProductsFromBlock
HeaderRows == 4          \* startRow = block.row + 4

\* a faulty variant: only an empty sequence cell ends the block
seqEndsBlock_nullOnly(noVal) == noVal = Null
\* the sequence-number cell that ends the block
seqEndsBlock(noVal) == noVal = Null \/ isNaN(parseInt(noVal))

\* afternoonVal ? String(afternoonVal).trim() : ''
trimmedOrEmpty(afternoonVal) ==
  IF Truthy(afternoonVal) THEN Trim(JSString(afternoonVal)) ELSE <<>>

\* the product line pushed for a row
productLine(v, sheet, block, row, productName, boxQty) ==
  IF v = "legacy"
  THEN [storeName |-> block.storeName,
        productName |-> Trim(JSString(productName)),
        boxQty |-> boxQty]
  ELSE [storeName |-> block.storeName,
        productName |-> Trim(JSString(productName)),
        boxQty |-> boxQty,
        afternoon |-> trimmedOrEmpty(getCellValue(sheet, row, block.colAfternoon))]

\* one pass of the loop body over the cells read from a row: "break" when
\* the sequence cell ends the block, "continue" when the name is empty or
\* the quantity is zero, "push" otherwise
rowStep(noVal, productName, boxQty) ==
  IF seqEndsBlock(noVal) THEN "break"
  ELSE IF ~Truthy(productName) THEN "continue"
  ELSE IF boxQty = 0 THEN "continue"
  ELSE "push"

\* what the loop gives from a row on, given the step of that row, the line
\* it would push and what the loop gives from the next row on
productRowsAfter(step, line, rest) ==
  IF step = "break" THEN <<>>
  ELSE IF step = "continue" THEN rest
  ELSE <<line>> \o rest
RECURSIVE productRows(_, _, _, _, _)
productRows(v, sheet, block, row, endRow) ==
  IF row >= endRow THEN <<>>
  ELSE productRowsAfter(
         rowStep(getCellValue(sheet, row, block.colNo),
                 getCellValue(sheet, row, block.colProduct),
                 parseIntOrZero(getCellValue(sheet, row, block.colBox))),
         productLine(v, sheet, block, row,
                     getCellValue(sheet, row, block.colProduct),
                     parseIntOrZero(getCellValue(sheet, row, block.colBox))),
         productRows(v, sheet, block, row + 1, endRow))

\* a faulty variant: the rows right after the anchor row are read as well
extractProductsFromBlock_fromAnchor(v, sheet, block, maxP) ==
  productRows(v, sheet, block, block.row + 1, block.row + HeaderRows + maxP)
\* extractProductsFromBlock(sheet, block, maxProducts = 25)
extractProductsFromBlock(v, sheet, block, maxP) ==
  productRows(v, sheet, block, block.row + HeaderRows, block.row + HeaderRows + maxP)

\* ------------------------------------------------------------------------
\* Dates
\* ------------------------------------------------------------------------
\* days since 1970-01-01 of the civil date (y, m, d), m in 1..12
daysFromCivil(y, m, d) ==
  LET yy == IF m <= 2 THEN y - 1 ELSE y
      era == yy \div 400
      yoe == yy - era * 400
      doy == ((153 * (IF m > 2 THEN m - 3 ELSE m + 9) + 2) \div 5) + d - 1
      doe == yoe * 365 + (yoe \div 4) - (yoe \div 100) + doy
  IN era * 146097 + doe - 719468

\* the civil date <<y, m, d>> of a day number
civilFromDays(z) ==
  LET zz == z + 719468
      era == zz \div 146097
      doe == zz - era * 146097
      yoe == (doe - (doe \div 1460) + (doe \div 36524) - (doe \div 146096)) \div 365
      doy == doe - (365 * yoe + (yoe \div 4) - (yoe \div 100))
      mp == (5 * doy + 2) \div 153
      d == doy - ((153 * mp + 2) \div 5) + 1
      m == IF mp < 10 THEN mp + 3 ELSE mp - 9
  IN <<IF m <= 2 THEN yoe + era * 400 + 1 ELSE yoe + era * 400, m, d>>

\* new Date(year, month, day): a month outside 0..11 and a day outside the
\* month carry over
newDate(year, month, day) ==
  daysFromCivil(year + (month \div 12), (month % 12) + 1, 1) + day - 1

\* String(k).padStart(2, '0')
padded2(digits) == IF Len(digits) < 2 THEN <<"0">> \o digits ELSE digits
padStart2(k) == padded2(NatToStr(k))

\* ExcelCore.formatDate: YYYY-MM-DD
formatCivil(c) ==
  NatToStr(c[1]) \o <<"-">> \o padStart2(c[2]) \o <<"-">> \o padStart2(c[3])
formatDate(date) == formatCivil(civilFromDays(date))

\* /\((\d+)\.(\d+)~(\d+)\.(\d+)\)/ at index i: the first two groups as
\* <<first, last>> index pairs, or <<>> when the pattern does not match there
dateMatchAt(s, i) ==
  LET a == DigitRun(s, i + 1)
      p1 == i + 1 + a
      b == DigitRun(s, p1 + 1)
      p2 == p1 + 1 + b
      c == DigitRun(s, p2 + 1)
      p3 == p2 + 1 + c
      d == DigitRun(s, p3 + 1)
      p4 == p3 + 1 + d
  IN IF /\ s[i] = "(" /\ a > 0 /\ b > 0 /\ c > 0 /\ d > 0
        /\ p4 <= Len(s)
        /\ s[p1] = "." /\ s[p2] = "~" /\ s[p3] = "." /\ s[p4] = ")"
     THEN <<<<i + 1, p1 - 1>>, <<p1 + 1, p2 - 1>>>>
     ELSE <<>>

leftmostDateMatch(s, starts) ==
  IF starts = {} THEN <<>> ELSE dateMatchAt(s, Min(starts))
dateMatch(s) == leftmostDateMatch(s, {i \in 1..Len(s) : dateMatchAt(s, i) # <<>>})

\* /(\d+)<year>\s*(\d+)<month>/ at index i: the first group, or <<>>
yearMatchAt(s, i) ==
  LET a == DigitRun(s, i)
      p1 == i + a
      q == p1 + 1 + WsRun(s, p1 + 1)
      b == DigitRun(s, q)
  IN IF /\ a > 0 /\ b > 0
        /\ q + b <= Len(s)
        /\ s[p1] = NYEON /\ s[q + b] = WOL
     THEN <<<<i, p1 - 1>>>>
     ELSE <<>>

leftmostYearMatch(s, starts) ==
  IF starts = {} THEN <<>> ELSE yearMatchAt(s, Min(starts))
yearMatch(s) == leftmostYearMatch(s, {i \in 1..Len(s) : yearMatchAt(s, i) # <<>>})

\* the fallback of the legacy script: new Date(2026, 0, 12)
DefaultYear == 2026
DefaultMonth == 0
DefaultDay == 12
\* the fallback: the fixed date in the legacy script, new Date() (the clock)
\* in the hyundai module
fallbackDate(v, clock) ==
  IF v = "legacy" THEN newDate(DefaultYear, DefaultMonth, DefaultDay) ELSE clock

\* the body of extractDateFromFileName after the two matches
dateOfMatches(v, fileName, clock, dateMatched, yearMatched) ==
  IF dateMatched # <<>> /\ yearMatched # <<>>
  THEN LET y == DigitsToNat(fileName, yearMatched[1][1], yearMatched[1][2])
           year == IF y < 100 THEN y + 2000 ELSE y
           month == DigitsToNat(fileName, dateMatched[1][1], dateMatched[1][2]) - 1
           day == DigitsToNat(fileName, dateMatched[2][1], dateMatched[2][2])
       IN newDate(year, month, day)
  ELSE fallbackDate(v, clock)

extractDateFromFileName(v, fileName, clock) ==
  dateOfMatches(v, fileName, clock, dateMatch(fileName), yearMatch(fileName))

\* ------------------------------------------------------------------------
\* Mapping table
\* ------------------------------------------------------------------------
RECURSIVE Concat(_)
Concat(ss) == IF ss = <<>> THEN <<>> ELSE Head(ss) \o Concat(Tail(ss))
Range(q) == {q[i] : i \in 1..Len(q)}

\* parseMappingTable: the rows of the first sheet, each with the cells
\* originalName, code, systemName (Undefined when the cell is empty), become
\* an object keyed by the original name; a later row replaces an earlier one
RECURSIVE parseMappingRows(_, _)
parseMappingRows(rows, k) ==
  IF k = 0 THEN <<>>
  ELSE LET row == rows[k]
           before == parseMappingRows(rows, k - 1)
           key == JSString(row.originalName)
           entry == [code |-> IF Truthy(row.code) THEN row.code ELSE Str(<<>>),
                     systemName |-> IF Truthy(row.systemName) THEN row.systemName
                                    ELSE Str(<<>>)]
       IN IF ~Truthy(row.originalName) THEN before
          ELSE [n \in (DOMAIN before) \cup {key} |->
                  IF n = key THEN entry ELSE before[n]]

parseMappingTable(rows) == parseMappingRows(rows, Len(rows))

\* property names every object literal inherits from Object.prototype
ObjectPrototypeNames ==
  { <<"v", "a", "l", "u", "e", "O", "f">>,
    <<"t", "o", "S", "t", "r", "i", "n", "g">>,
    <<"c", "o", "n", "s", "t", "r", "u", "c", "t", "o", "r">> }

\* mapping[storeName] of the object literal: its own entry, else the member
\* inherited under that name (truthy, without code or systemName), else
\* undefined
mappingGet(mapping, storeName) ==
  IF storeName \in DOMAIN mapping
  THEN [found |-> TRUE, code |-> mapping[storeName].code,
        systemName |-> mapping[storeName].systemName]
  ELSE IF storeName \in ObjectPrototypeNames
  THEN [found |-> TRUE, code |-> Undefined, systemName |-> Undefined]
  ELSE [found |-> FALSE, code |-> Undefined, systemName |-> Undefined]

\* the code and system name given to the rows of a block
resolved(mapped, storeName) ==
  IF ~mapped.found
  THEN [failed |-> TRUE, code |-> Str(MAPPING_FAILED),
        systemName |-> Str(FailPrefix \o storeName)]
  ELSE [failed |-> FALSE, code |-> mapped.code, systemName |-> mapped.systemName]
resolveStore(mapping, storeName) == resolved(mappingGet(mapping, storeName), storeName)

\* ------------------------------------------------------------------------
\* Conversion
\* ------------------------------------------------------------------------
\* a faulty variant: the weekdays counted from one
dayDate_fromOne(baseDate, k) == baseDate + k
\* dayDates[day]: baseDate with setDate(getDate() + idx)
dayDate(baseDate, k) == baseDate + (k - 1)
\* the five dates as the rows carry them, in weekday order
dayDatesOf(baseDate) == [k \in 1..Len(dayNames) |-> formatDate(dayDate(baseDate, k))]

\* originWorkbook.SheetNames.includes(dayName)
hasSheet(wb, dayName) == dayName \in Range(wb.SheetNames)

\* allData.push for one product
dataRow(v, date, r, product) ==
  IF v = "legacy"
  THEN [date |-> formatDate(date), code |-> r.code, storeName |-> r.systemName,
        productName |-> product.productName, boxQty |-> product.boxQty]
  ELSE [date |-> formatDate(date), code |-> r.code, storeName |-> r.systemName,
        productName |-> product.productName, boxQty |-> product.boxQty,
        afternoon |-> product.afternoon]

\* the rows of one block
blockRows(v, date, r, ps) == [i \in 1..Len(ps) |-> dataRow(v, date, r, ps[i])]
blockData(v, sheet, mapping, date, block) ==
  blockRows(v, date, resolveStore(mapping, block.storeName),
            extractProductsFromBlock(v, sheet, block, maxProducts))

\* the rows of one weekday: none when the workbook has no such sheet
sheetData(v, sheet, mapping, date, blocks) ==
  Concat([b \in 1..Len(blocks) |-> blockData(v, sheet, mapping, date, blocks[b])])
dayData(v, wb, mapping, baseDate, k) ==
  IF ~hasSheet(wb, dayNames[k]) THEN <<>>
  ELSE sheetData(v, wb.Sheets[dayNames[k]], mapping, dayDate(baseDate, k),
                 findStoreBlocks(v, wb.Sheets[dayNames[k]]))

allDataOf(v, wb, mapping, baseDate) ==
  Concat([k \in 1..Len(dayNames) |-> dayData(v, wb, mapping, baseDate, k)])

\* mappingFailures.push: the store names of the blocks whose lookup failed,
\* one per block, in block order
failuresOf(mapping, blocks) ==
  Concat([b \in 1..Len(blocks) |->
            IF resolveStore(mapping, blocks[b].storeName).failed
            THEN <<blocks[b].storeName>> ELSE <<>>])
dayFailures(v, wb, mapping, k) ==
  IF ~hasSheet(wb, dayNames[k]) THEN <<>>
  ELSE failuresOf(mapping, findStoreBlocks(v, wb.Sheets[dayNames[k]]))

\* [...new Set(names)]: the first occurrence of each, in order
RECURSIVE unique(_)
unique(q) ==
  IF q = <<>> THEN <<>>
  ELSE LET front == unique(SubSeq(q, 1, Len(q) - 1))
       IN IF q[Len(q)] \in Range(front) THEN front ELSE Append(front, q[Len(q)])

mappingFailuresOf(v, wb, mapping) ==
  unique(Concat([k \in 1..Len(dayNames) |-> dayFailures(v, wb, mapping, k)]))

\* a faulty variant: the sum without the filter on the date
RECURSIVE sumForDate_noFilter(_, _)
sumForDate_noFilter(data, dateStr) ==
  IF data = <<>> THEN 0
  ELSE Head(data).boxQty + sumForDate_noFilter(Tail(data), dateStr)
\* allData.filter(row => row.date === dateStr).reduce((sum, row) => sum + row.boxQty, 0)
RECURSIVE sumForDate(_, _)
sumForDate(data, dateStr) ==
  IF data = <<>> THEN 0
  ELSE (IF Head(data).date = dateStr THEN Head(data).boxQty ELSE 0)
       + sumForDate(Tail(data), dateStr)

\* the total cell F8 of a weekday sheet
TotalRow == 8
TotalCol == 6
getOriginalBoxTotal(sheet) == parseIntOrZero(getCellValue(sheet, TotalRow, TotalCol))

\* getDaySheetTotals of the legacy script: from row 35 on, the box cell of
\* every row whose B (K) cell is the subtotal literal, when positive
StoreSumStartRow == 35
positiveOrZero(r) == IF ~r.nan /\ r.n > 0 THEN r.n ELSE 0
subtotalOf(label, boxVal) ==
  IF label = Str(<<GYE>>) /\ Truthy(boxVal) THEN positiveOrZero(parseInt(boxVal)) ELSE 0
subtotalAt(sheet, row, f) ==
  subtotalOf(getCellValue(sheet, row, f.colNo), getCellValue(sheet, row, f.colBox))

RECURSIVE storeBoxSumFrom(_, _, _)
storeBoxSumFrom(sheet, row, last) ==
  IF row > last THEN 0
  ELSE subtotalAt(sheet, row, legacyFamilies[1]) + subtotalAt(sheet, row, legacyFamilies[2])
       + storeBoxSumFrom(sheet, row + 1, last)

getDaySheetTotals(wb, k) ==
  IF ~hasSheet(wb, dayNames[k]) THEN [present |-> FALSE, totalBox |-> 0, storeBoxSum |-> 0]
  ELSE [present |-> TRUE,
        totalBox |-> getOriginalBoxTotal(wb.Sheets[dayNames[k]]),
        storeBoxSum |-> storeBoxSumFrom(wb.Sheets[dayNames[k]], StoreSumStartRow,
                                       lastRow(wb.Sheets[dayNames[k]]))]

\* a faulty variant: a reference sum of zero is compared too
matchResultOf_nonNegative(extractedBox, original) ==
  IF original >= 0
  THEN IF extractedBox = original THEN [kind |-> "match", diff |-> 0]
       ELSE [kind |-> "mismatch", diff |-> extractedBox - original]
  ELSE [kind |-> "nodata", diff |-> 0]
\* the three validation results: match, mismatch with the difference, no data
matchResultOf(extractedBox, original) ==
  IF original > 0
  THEN IF extractedBox = original THEN [kind |-> "match", diff |-> 0]
       ELSE [kind |-> "mismatch", diff |-> extractedBox - original]
  ELSE [kind |-> "nodata", diff |-> 0]

\* the validation row of weekday k in the legacy script: compared with the
\* sum of the store subtotals
legacyRowOf(dateStr, dayName, extractedBox, t) ==
  [date |-> dateStr, dayName |-> dayName, extractedBox |-> extractedBox,
   originalTotal |-> t.totalBox, originalStoreSum |-> t.storeBoxSum,
   matchResult |-> matchResultOf(extractedBox, t.storeBoxSum)]
legacyRowAt(wb, data, dateStr, k) ==
  legacyRowOf(dateStr, dayNames[k], sumForDate(data, dateStr), getDaySheetTotals(wb, k))
legacyValidationRow(wb, data, baseDate, k) ==
  legacyRowAt(wb, data, formatDate(dayDate(baseDate, k)), k)

\* the validation row of weekday k in the hyundai module: compared with F8
hyundaiRowOf(dateStr, dayName, extractedBox, originalBox) ==
  [date |-> dateStr, dayName |-> dayName, extractedBox |-> extractedBox,
   originalBox |-> originalBox,
   matchResult |-> matchResultOf(extractedBox, originalBox)]
hyundaiRowAt(wb, data, dateStr, k) ==
  hyundaiRowOf(dateStr, dayNames[k], sumForDate(data, dateStr),
               getOriginalBoxTotal(wb.Sheets[dayNames[k]]))
hyundaiValidationRow(wb, data, baseDate, k) ==
  hyundaiRowAt(wb, data, formatDate(dayDate(baseDate, k)), k)

\* the weekdays that get a validation row: all five in the legacy script,
\* those with a sheet in the hyundai module
validatedDay(v, wb, k) == v = "legacy" \/ hasSheet(wb, dayNames[k])

validationOf(v, wb, data, baseDate) ==
  Concat([k \in 1..Len(dayNames) |->
            IF ~validatedDay(v, wb, k) THEN <<>>
            ELSE IF v = "legacy" THEN <<legacyValidationRow(wb, data, baseDate, k)>>
            ELSE <<hyundaiValidationRow(wb, data, baseDate, k)>>])

\* the key of a row in storeDaily
storeKey(row) ==
  row.date \o <<"_">> \o JSString(row.code) \o <<"_">> \o JSString(row.storeName)

\* storeDaily after the first k rows, as the sequence Object.values gives:
\* one entry per key, in order of first occurrence
RECURSIVE storeDailyOf(_, _)
storeDailyPut(acc, row, key) ==
  IF \A i \in 1..Len(acc) : acc[i].key # key
  THEN Append(acc, [key |-> key, date |-> row.date, code |-> row.code,
                    storeName |-> row.storeName, boxSum |-> row.boxQty])
  ELSE [acc EXCEPT ![Min({i \in 1..Len(acc) : acc[i].key = key})].boxSum = @ + row.boxQty]
storeDailyOf(data, k) ==
  IF k = 0 THEN <<>>
  ELSE storeDailyPut(storeDailyOf(data, k - 1), data[k], storeKey(data[k]))

\* Object.values(storeDaily)
storeDailyValues(sd) ==
  [i \in 1..Len(sd) |->
     [date |-> sd[i].date, code |-> sd[i].code,
      storeName |-> sd[i].storeName, boxSum |-> sd[i].boxSum]]

\* convertData / convertDataJS
\* what the conversion returns, given the rows collected from the sheets
returnedFor(v, wb, baseDate, allData, failures) ==
  [present |-> TRUE,
   data |-> allData,
   validation |-> validationOf(v, wb, allData, baseDate),
   storeDaily |-> storeDailyValues(storeDailyOf(allData, Len(allData))),
   mappingFailures |-> failures]
convertFrom(v, wb, mapping, baseDate) ==
  returnedFor(v, wb, baseDate, allDataOf(v, wb, mapping, baseDate),
              mappingFailuresOf(v, wb, mapping))
convertData(v, wb, mapping, fileName, clock) ==
  convertFrom(v, wb, mapping, extractDateFromFileName(v, fileName, clock))

\* ------------------------------------------------------------------------
\* State
\* ------------------------------------------------------------------------
VARIABLES
  variant,      \* which deployment runs: "legacy" or "hyundai"
  now,          \* the wall clock, in days since 1970-01-01
  originFile,   \* the selected origin file [name, workbook], or NoFile
  mappingFile,  \* the selected mapping file [rows], or NoFile
  result,       \* what the last conversion returned, or NoResult
  earlier,      \* an earlier conversion, kept with its inputs, or NoResult
  inSheet,      \* the sheet handed to extractProductsFromBlock
  inBlock,      \* the block handed to extractProductsFromBlock
  products,     \* what extractProductsFromBlock returned
  pc,           \* "ready" before the operation under study, "done" after it
  btnDisabled,  \* the disabled property of the convert button
  status,       \* the status element: its class and the mode it reports
  wasmReady,    \* the flag wasmReady of the hyundai module
  wasmStatus,   \* the class of the WASM status element
  runs,         \* the invocations of the click handler that have not ended (a bag)
  writes,       \* the files handed to downloadExcel that it has yet to write (a bag)
  download,     \* the file last saved (saveAs, XLSX.writeFile), or NoResult
  converters,   \* the registry of the tab manager: [id, init], init whether it has an init
  initCalls,    \* how often the init of each entry of the registry has been called
  tabs,         \* the tab buttons with their tab contents, in document order
  activeTab     \* the variable activeTab: an id, or "null"

uiVars == <<btnDisabled, status, wasmReady, wasmStatus, runs, writes, download>>
tabVars == <<converters, initCalls, tabs, activeTab>>
vars == <<variant, now, originFile, mappingFile, result, earlier,
          inSheet, inBlock, products, pc, uiVars, tabVars>>

NoFile == [name |-> <<>>, present |-> FALSE]
NoResult == [present |-> FALSE]
NoStatus == [type |-> "none", mode |-> "", message |-> ""]
\* the page as loaded: the button disabled, no status, the WASM module of
\* the hyundai module loading, no click yet; the registry of the tab manager
\* holds the hyundai converter, no tab has been created
UILoaded ==
  /\ btnDisabled = TRUE
  /\ status = NoStatus
  /\ wasmReady = FALSE
  /\ wasmStatus = IF variant = "hyundai" THEN "loading" ELSE "none"
  /\ runs = EmptyBag
  /\ writes = EmptyBag
  /\ download = NoResult
  /\ converters = <<[id |-> "hyundai", init |-> TRUE]>>
  /\ initCalls = <<0>>
  /\ tabs = <<>>
  /\ activeTab = "null"


\* ExcelCore.readFile: the sheet of a set of <<rowNumber, colNumber, value>>
\* cells; empty cells are not stored
sheetOf(cells) ==
  LET kept == {c \in cells : c[3] # Null}
      at(a) == CHOOSE c \in kept : encodeCell(c[1] - 1, c[2] - 1) = a
  IN [a \in {encodeCell(c[1] - 1, c[2] - 1) : c \in kept} |-> at(a)[3]]

\* ------------------------------------------------------------------------
\* Specification of extractProductsFromBlock alone: one block in column
\* family B, anchored at row 10, with every combination of cell contents in
\* its first MaxRows product rows
\* ------------------------------------------------------------------------
MaxRows == 2
SeqCellValues == {Null, Num(1), Str(<<"x">>)}
NameCellValues == {Null, Str(<<" ">>), Str(<<" ", "P">>)}
BoxCellValues == {Str(<<"x">>), Num(0), Num(-2), Num(3)}
RowKinds == [no : SeqCellValues, name : NameCellValues, box : BoxCellValues]
AnchorA == Str(<<MARKER, " ", "A", " ", ":", " ", "3">>)

\* the cells of a block of family f anchored at a row: the anchor, then the
\* product rows given, from the fifth row of the block on
blockCells(f, anchorRow, anchor, rows, afternoon) ==
  {<<anchorRow, f.colNo, anchor>>}
  \cup UNION {{<<anchorRow + HeaderRows + i - 1, f.colNo, rows[i].no>>,
               <<anchorRow + HeaderRows + i - 1, f.colNo + 1, afternoon>>,
               <<anchorRow + HeaderRows + i - 1, f.colNo + 3, rows[i].name>>,
               <<anchorRow + HeaderRows + i - 1, f.colNo + 4, rows[i].box>>}
              : i \in 1..Len(rows)}

InitExtract ==
  /\ variant \in Variants
  /\ now = 0
  /\ originFile = NoFile
  /\ mappingFile = NoFile
  /\ result = NoResult
  /\ earlier = NoResult
  /\ \E rows \in [1..MaxRows -> RowKinds] :
       inSheet = sheetOf(blockCells(hyundaiFamilies[1], 10, AnchorA, rows,
                                    Str(<<" ", "p", "m">>)))
  /\ inBlock = findStoreBlocks(variant, inSheet)[1]
  /\ products = <<>>
  /\ pc = "ready"
  /\ UILoaded

Extract ==
  /\ pc = "ready"
  /\ products' = extractProductsFromBlock(variant, inSheet, inBlock, maxProducts)
  /\ pc' = "done"
  /\ UNCHANGED <<variant, now, originFile, mappingFile, result, earlier,
                 inSheet, inBlock>>
  /\ UNCHANGED tabVars
  /\ UNCHANGED uiVars

SpecExtract == InitExtract /\ [][Extract]_vars

\* ------------------------------------------------------------------------
\* Specification of one conversion: the origin workbook, the file name, the
\* mapping table and the clock are drawn from the sets below, then the
\* conversion runs
\* ------------------------------------------------------------------------
MaxKinds == 2            \* distinct weekday sheet contents in one workbook
MaxClock == 1            \* days the clock may be past ClockEpoch

Row(no, name, box) == [no |-> Num(no), name |-> Str(name), box |-> Num(box)]
Anchor(name) == Str(<<MARKER, " ">> \o name \o <<" ", ":", " ", "3">>)
StoreA == <<"A">>
StoreB == <<"B">>
StoreV == <<"v", "a", "l", "u", "e", "O", "f">>
NoAfternoon == Null
Pm == Str(<<"p", "m", " ">>)

\* a subtotal row of the legacy layout under family f, and the total cell
subtotalCells(f, row, box) == {<<row, f.colNo, Str(<<GYE>>)>>, <<row, f.colBox, box>>}
totalCell(v) == {<<TotalRow, TotalCol, v>>}

\* two stores side by side, totals that agree with the lines
Sheet1 ==
  sheetOf(blockCells(hyundaiFamilies[1], 10, Anchor(StoreA),
                     <<Row(1, <<"P">>, 3), Row(2, <<"Q", " ">>, 2)>>, Pm)
          \cup blockCells(hyundaiFamilies[2], 10, Anchor(StoreB),
                          <<Row(1, <<"P">>, 4)>>, NoAfternoon)
          \cup subtotalCells(legacyFamilies[1], 35, Num(5))
          \cup subtotalCells(legacyFamilies[2], 35, Num(4))
          \cup totalCell(Num(9)))
\* a store named like an inherited property, a second block lower in column
\* B, a block in column T, a total that is not positive, no subtotal rows
Sheet2 ==
  sheetOf(blockCells(hyundaiFamilies[1], 10, Anchor(StoreV),
                     <<Row(1, <<"P">>, 1)>>, NoAfternoon)
          \cup blockCells(hyundaiFamilies[1], 20, Anchor(StoreA),
                          <<Row(1, <<"R">>, 2)>>, NoAfternoon)
          \cup blockCells(hyundaiFamilies[3], 10, Anchor(StoreB),
                          <<Row(1, <<"P">>, 6)>>, Pm)
          \cup totalCell(Num(-1)))
\* the same store twice, totals that disagree with the lines
Sheet3 ==
  sheetOf(blockCells(hyundaiFamilies[1], 10, Anchor(StoreB),
                     <<Row(1, <<"P">>, 5)>>, NoAfternoon)
          \cup blockCells(hyundaiFamilies[2], 12, Anchor(StoreB),
                          <<Row(1, <<"P">>, 1), Row(2, <<"Q">>, 0)>>, NoAfternoon)
          \cup subtotalCells(legacyFamilies[1], 36, Str(<<"4">>))
          \cup totalCell(Num(4)))
\* a sheet without cells
Sheet4 == sheetOf({})
SheetPool == <<Sheet1, Sheet2, Sheet3, Sheet4>>

\* the weekdays of a set, last first
RECURSIVE daysDescending(_)
daysDescending(P) ==
  IF P = {} THEN <<>> ELSE <<dayNames[Max(P)]>> \o daysDescending(P \ {Max(P)})

\* the workbook with the weekday sheets P; the i-th of them has the content
\* kinds[i] of the pool (repeating after MaxKinds); a sheet of another name
\* comes first, the weekday sheets follow in reverse order
workbookOf(P, kinds) ==
  LET content(k) ==
        SheetPool[kinds[((Cardinality({j \in P : j <= k}) - 1) % MaxKinds) + 1]]
  IN [SheetNames |-> <<OtherSheetName>> \o daysDescending(P),
      Sheets |-> [n \in {OtherSheetName} \cup {dayNames[k] : k \in P} |->
                    IF n = OtherSheetName THEN Sheet1
                    ELSE content(CHOOSE k \in P : dayNames[k] = n)]]

Workbooks ==
  {workbookOf(P, kinds) :
     P \in SUBSET (1..Len(dayNames)), kinds \in [1..MaxKinds -> 1..Len(SheetPool)]}

\* "26<year> 1<month> (1.30~2.3).xlsx" and a name without either pattern
WeekFileName ==
  <<"2", "6", NYEON, " ", "1", WOL, " ", "(", "1", ".", "3", "0", "~", "2", ".", "3", ")",
    ".", "x", "l", "s", "x">>
PlainFileName == <<"a", ".", "x", "l", "s", "x">>
FileNames == {WeekFileName, PlainFileName}

MappingRow(o, c, n) == [originalName |-> o, code |-> c, systemName |-> n]
MappingTables ==
  { <<>>,
    <<MappingRow(Str(StoreA), Str(<<"c", "1">>), Str(<<"A", "l", "p", "h", "a">>))>>,
    <<MappingRow(Str(StoreA), Num(7), Str(<<"A", "l", "p", "h", "a">>)),
      MappingRow(Undefined, Str(<<"c", "9">>), Str(<<"X">>)),
      MappingRow(Str(StoreB), Undefined, Str(<<"B", "e", "t", "a">>))>> }

OriginFiles == {[name |-> f, present |-> TRUE, workbook |-> w] : f \in FileNames, w \in Workbooks}
MappingFiles == {[name |-> <<"m">>, present |-> TRUE, rows |-> r] : r \in MappingTables}

\* the clock starts on the day of the legacy fallback date
ClockEpoch == newDate(DefaultYear, DefaultMonth, DefaultDay)

InitConvert ==
  /\ variant \in Variants
  /\ now \in {ClockEpoch, ClockEpoch + MaxClock}
  /\ originFile \in OriginFiles
  /\ mappingFile \in MappingFiles
  /\ result = NoResult
  /\ earlier = NoResult
  /\ inSheet = Sheet4
  /\ inBlock = <<>>
  /\ products = <<>>
  /\ pc = "ready"
  /\ UILoaded

\* the conversion of the selected files: parseMappingTable, then convertData
\* with the name of the origin file (convertDataJS, with the clock at hand)
Convert ==
  /\ pc = "ready"
  /\ originFile.present /\ mappingFile.present
  /\ result' = convertData(variant, originFile.workbook,
                           parseMappingTable(mappingFile.rows), originFile.name, now)
  /\ pc' = "done"
  /\ UNCHANGED <<variant, now, originFile, mappingFile, earlier,
                 inSheet, inBlock, products>>
  /\ UNCHANGED tabVars
  /\ UNCHANGED uiVars

SpecConvert == InitConvert /\ [][Convert]_vars

\* ------------------------------------------------------------------------
\* Specification of extractDateFromFileName alone: the function is called
\* on file names of the set below while the clock advances between calls;
\* the call before the last one is remembered
\* ------------------------------------------------------------------------
\* "(1.30~2.3).xlsx": the day range without the year; "26<year> 1<month>.xlsx":
\* the year and month without the day range; a second week
RangeOnlyFileName ==
  <<"(", "1", ".", "3", "0", "~", "2", ".", "3", ")", ".", "x", "l", "s", "x">>
YearOnlyFileName == <<"2", "6", NYEON, " ", "1", WOL, ".", "x", "l", "s", "x">>
OtherWeekFileName ==
  <<"2", "5", NYEON, "1", "2", WOL, "(", "1", "2", ".", "2", "9", "~", "1", ".", "2", ")">>
\* "2026<year> 1<month> week 3 (1.12~1.16).xlsx": a four-digit year
FullYearFileName ==
  <<"2", "0", "2", "6", NYEON, " ", "1", WOL, " ", "w", "3", " ",
    "(", "1", ".", "1", "2", "~", "1", ".", "1", "6", ")", ".", "x", "l", "s", "x">>
DateFileNames ==
  {WeekFileName, PlainFileName, RangeOnlyFileName, YearOnlyFileName, OtherWeekFileName,
   FullYearFileName}

InitDate ==
  /\ variant \in Variants
  /\ now = ClockEpoch
  /\ originFile = NoFile
  /\ mappingFile = NoFile
  /\ result = NoResult
  /\ earlier = NoResult
  /\ inSheet = Sheet4
  /\ inBlock = <<>>
  /\ products = <<>>
  /\ pc = "ready"
  /\ UILoaded

\* a day passes
Tick ==
  /\ now < ClockEpoch + MaxClock
  /\ now' = now + 1
  /\ UNCHANGED <<variant, originFile, mappingFile, result, earlier,
                 inSheet, inBlock, products, pc>>
  /\ UNCHANGED tabVars
  /\ UNCHANGED uiVars

\* what is kept of a call: the file name, the base date and the dates of
\* the five weekdays
datesFrom(f, baseDate) ==
  [present |-> TRUE, fileName |-> f, date |-> baseDate, dayDates |-> dayDatesOf(baseDate)]

\* extractDateFromFileName(fileName), with the clock at hand, and the
\* dayDates the conversion derives from it
ExtractDate ==
  \E f \in DateFileNames :
    /\ result' = datesFrom(f, extractDateFromFileName(variant, f, now))
    /\ earlier' = result
    /\ pc' = "done"
    /\ UNCHANGED <<variant, now, originFile, mappingFile, inSheet, inBlock, products>>
    /\ UNCHANGED tabVars
    /\ UNCHANGED uiVars

NextDate == Tick \/ ExtractDate
SpecDate == InitDate /\ [][NextDate]_vars

\* ------------------------------------------------------------------------
\* Specification of repeated runs: the two files are selected and
\* re-selected, the clock advances, the conversion runs any number of times;
\* every run is kept with its inputs, and so is one earlier run
\* ------------------------------------------------------------------------
RerunWorkbooks == {workbookOf({1}, [i \in 1..MaxKinds |-> 1]),
                   workbookOf({2, 4}, [i \in 1..MaxKinds |-> 3])}
RerunOriginFiles ==
  {[name |-> f, present |-> TRUE, workbook |-> w] : f \in FileNames, w \in RerunWorkbooks}
RerunMappingFiles == {m \in MappingFiles : Len(m.rows) # 1}

InitRerun ==
  /\ variant \in Variants
  /\ now = ClockEpoch
  /\ originFile = NoFile
  /\ mappingFile = NoFile
  /\ result = NoResult
  /\ earlier = NoResult
  /\ inSheet = Sheet4
  /\ inBlock = <<>>
  /\ products = <<>>
  /\ pc = "ready"
  /\ UILoaded

\* a faulty variant: the button enabled as soon as one file is selected
buttonDisabled_either(o, m) == ~(o.present \/ m.present)
\* checkFilesReady / updateButtonState: !(originFile && mappingFile)
buttonDisabled(o, m) == ~(o.present /\ m.present)

\* the change handler of the origin file input, the first file of the
\* input being f (NoFile when the input has been emptied)
originChanged(f) ==
  /\ originFile' = f
  /\ btnDisabled' = buttonDisabled(f, mappingFile)
  /\ UNCHANGED <<variant, now, mappingFile, result, earlier,
                 inSheet, inBlock, products, pc>>
  /\ UNCHANGED tabVars
  /\ UNCHANGED <<status, wasmReady, wasmStatus, runs, writes, download>>

\* the change handler of the mapping file input
mappingChanged(f) ==
  /\ mappingFile' = f
  /\ btnDisabled' = buttonDisabled(originFile, f)
  /\ UNCHANGED <<variant, now, originFile, result, earlier,
                 inSheet, inBlock, products, pc>>
  /\ UNCHANGED tabVars
  /\ UNCHANGED <<status, wasmReady, wasmStatus, runs, writes, download>>

SelectOrigin == \E f \in RerunOriginFiles : originChanged(f)
SelectMapping == \E f \in RerunMappingFiles : mappingChanged(f)

\* the click handler of the convert button: nothing without both files;
\* with them, the files are read and converted.  The run before it is kept
\* as the earlier one, or the earlier one stays
ClickConvert ==
  /\ originFile.present /\ mappingFile.present
  /\ result' = [present |-> TRUE, origin |-> originFile, mapping |-> mappingFile,
                out |-> convertData(variant, originFile.workbook,
                                    parseMappingTable(mappingFile.rows),
                                    originFile.name, now)]
  /\ earlier' \in {earlier, result}
  /\ pc' = "done"
  /\ UNCHANGED <<variant, now, originFile, mappingFile, inSheet, inBlock, products>>
  /\ UNCHANGED tabVars
  /\ UNCHANGED uiVars

NextRerun == SelectOrigin \/ SelectMapping \/ Tick \/ ClickConvert
SpecRerun == InitRerun /\ [][NextRerun]_vars

\* ------------------------------------------------------------------------
\* Specification of the page: files are selected, replaced and removed, the
\* WASM module of the hyundai module loads or fails to, the button is
\* clicked while fewer than MaxInFlight invocations of its handler and
\* writes of downloadExcel are pending, every invocation advances from one
\* await to the next when its file reads settle, and every write succeeds
\* or fails
\* ------------------------------------------------------------------------
MaxInFlight == 2

\* a file that reads and parses (readable) or one whose read or parse fails
UIFile(name, readable, workbook, rows) ==
  [name |-> name, present |-> TRUE, readable |-> readable, workbook |-> workbook, rows |-> rows]
EmptyWorkbook == [SheetNames |-> <<>>, Sheets |-> <<>>]
\* a workbook with one weekday sheet that holds one block of one product
oneBlockWorkbook(k, store, box) ==
  [SheetNames |-> <<dayNames[k]>>,
   Sheets |-> [n \in {dayNames[k]} |->
                 sheetOf(blockCells(hyundaiFamilies[1], 1, Anchor(store),
                                    <<Row(1, <<"P">>, box)>>, NoAfternoon))]]
UIOriginFiles ==
  { UIFile(WeekFileName, TRUE, oneBlockWorkbook(1, StoreA, 3), <<>>),
    UIFile(PlainFileName, FALSE, EmptyWorkbook, <<>>) }
UIMappingFiles ==
  { UIFile(<<"m">>, TRUE, EmptyWorkbook,
           <<MappingRow(Str(StoreA), Str(<<"c", "1">>), Str(<<"A", "l", "p", "h", "a">>))>>),
    UIFile(<<"n">>, FALSE, EmptyWorkbook, <<>>) }

InitUI ==
  /\ variant \in Variants
  /\ now = ClockEpoch
  /\ originFile = NoFile
  /\ mappingFile = NoFile
  /\ result = NoResult
  /\ earlier = NoResult
  /\ inSheet = Sheet4
  /\ inBlock = <<>>
  /\ products = <<>>
  /\ pc = "ready"
  /\ UILoaded

\* e.target.files[0] of a change event: a file, or none
ChangeOrigin == \E f \in UIOriginFiles \cup {NoFile} : originChanged(f)
ChangeMapping == \E f \in UIMappingFiles \cup {NoFile} : mappingChanged(f)

\* a faulty variant: wasmReady set whatever the outcome
wasmReadyAfter_always(ready, success) == TRUE
\* initWasm: wasmReady = true only after import and init succeeded
wasmReadyAfter(ready, success) == IF success THEN TRUE ELSE ready

\* initWasm settles, and the then-callback of initUI shows the outcome
WasmInit ==
  /\ variant = "hyundai"
  /\ wasmStatus = "loading"
  /\ \E success \in BOOLEAN :
       /\ wasmReady' = wasmReadyAfter(wasmReady, success)
       /\ wasmStatus' = IF success THEN "ready" ELSE "fallback"
  /\ UNCHANGED <<variant, now, originFile, mappingFile, result, earlier,
                 inSheet, inBlock, products, pc>>
  /\ UNCHANGED tabVars
  /\ UNCHANGED <<btnDisabled, status, runs, writes, download>>

\* the branch convert takes: if (wasmReady)
runMode(v, ready) == IF v = "hyundai" /\ ready THEN "WASM" ELSE "JS"

\* the handler up to its first await.  The hyundai module starts both reads
\* (Promise.all), the legacy script the read of the origin file only
startedRun(v, ready, o, m) ==
  [stage |-> "reading", mode |-> runMode(v, ready), origin |-> o,
   mapping |-> IF v = "hyundai" THEN m ELSE NoFile]

\* the click handler of the convert button; a disabled button gets no click
Click ==
  /\ ~btnDisabled
  /\ BagCardinality(runs) + BagCardinality(writes) < MaxInFlight
  /\ status' = [type |-> "processing", mode |-> "", message |-> ""]
  /\ runs' = runs (+) SetToBag({startedRun(variant, wasmReady, originFile, mappingFile)})
  /\ UNCHANGED <<variant, now, originFile, mappingFile, result, earlier,
                 inSheet, inBlock, products, pc>>
  /\ UNCHANGED tabVars
  /\ UNCHANGED <<btnDisabled, wasmReady, wasmStatus, writes, download>>

\* name.replace(/\.xlsx?$/i, '_result.xlsx')
endsWith(s, lower, upper) ==
  /\ Len(s) >= Len(lower)
  /\ \A k \in 1..Len(lower) :
       s[Len(s) - Len(lower) + k] \in {lower[k], upper[k]}
ResultSuffix == <<"_", "r", "e", "s", "u", "l", "t", ".", "x", "l", "s", "x">>
outputFileName(name) ==
  IF endsWith(name, <<".", "x", "l", "s", "x">>, <<".", "X", "L", "S", "X">>)
  THEN SubSeq(name, 1, Len(name) - 5) \o ResultSuffix
  ELSE IF endsWith(name, <<".", "x", "l", "s">>, <<".", "X", "L", "S">>)
  THEN SubSeq(name, 1, Len(name) - 4) \o ResultSuffix
  ELSE name

\* what downloadExcel is handed: the conversion of the workbook and the
\* mapping table that were read, dated by and named after `name`
downloadOf(v, run, name, clock) ==
  [present |-> TRUE, fileName |-> outputFileName(name),
   out |-> convertData(v, run.origin.workbook, parseMappingTable(run.mapping.rows),
                       name, clock)]

\* a faulty variant: a failed read of the mapping file goes unnoticed
readsOk_originOnly(o, m) == o.readable
\* both awaited reads resolve
readsOk(o, m) == o.readable /\ m.readable

\* how the handler ends once the reads have settled: with the error of a
\* read, with the TypeError of originFile.name when no origin file is
\* selected any more, or with the call of downloadExcel
outcomeOf(ok, selected) ==
  IF ~ok THEN "read" ELSE IF ~selected.present THEN "TypeError" ELSE "ok"

\* downloadExcel of the legacy script writes the file before it returns: an
\* error of XLSX.writeFile is thrown into the handler
afterWrite(outcome, written) == IF outcome = "ok" /\ ~written THEN "write" ELSE outcome

\* the end of the handler: after the call of downloadExcel the success
\* status, in the catch block the error status with the message.  The
\* legacy downloadExcel has saved the file by then; ExcelCore.downloadExcel
\* is async and convert does not await it, so its write is still to come
runEnds(run, outcome, made) ==
  /\ runs' = runs (-) SetToBag({run})
  /\ status' = IF outcome = "ok"
               THEN [type |-> "success",
                     mode |-> IF variant = "hyundai" THEN run.mode ELSE "",
                     message |-> ""]
               ELSE [type |-> "error", mode |-> "", message |-> outcome]
  /\ download' = IF outcome = "ok" /\ variant = "legacy" THEN made ELSE download
  /\ writes' = IF outcome = "ok" /\ variant = "hyundai"
               THEN writes (+) SetToBag({made}) ELSE writes
  /\ UNCHANGED <<variant, now, originFile, mappingFile, result, earlier,
                 inSheet, inBlock, products, pc>>
  /\ UNCHANGED tabVars
  /\ UNCHANGED <<btnDisabled, wasmReady, wasmStatus>>

\* hyundai module: Promise.all settles and convert runs to its end.  The
\* name is originFile.name of the module variable, read after the await
ReadsDone ==
  /\ variant = "hyundai"
  /\ \E run \in BagToSet(runs) :
       /\ run.stage = "reading"
       /\ runEnds(run, outcomeOf(readsOk(run.origin, run.mapping), originFile),
                  downloadOf(variant, run, originFile.name, now))

\* legacy script: the read of the origin file settles; the read of the
\* mapping file selected by then starts (readAsArrayBuffer throws a
\* TypeError when there is none)
OriginRead ==
  /\ variant = "legacy"
  /\ \E run \in BagToSet(runs) :
       /\ run.stage = "reading"
       /\ IF run.origin.readable /\ mappingFile.present
          THEN /\ runs' = (runs (-) SetToBag({run}))
                          (+) SetToBag({[run EXCEPT !.stage = "readingMapping",
                                                    !.mapping = mappingFile]})
               /\ UNCHANGED <<variant, now, originFile, mappingFile, result, earlier,
                              inSheet, inBlock, products, pc>>
               /\ UNCHANGED tabVars
               /\ UNCHANGED <<btnDisabled, status, wasmReady, wasmStatus, writes, download>>
          ELSE runEnds(run, outcomeOf(run.origin.readable, mappingFile), NoResult)

\* legacy script: the read of the mapping file settles and the handler runs
\* to its end; convertData and the output name read originFile.name, and
\* the file is written or the write throws
MappingRead ==
  /\ variant = "legacy"
  /\ \E run \in BagToSet(runs), written \in BOOLEAN :
       /\ run.stage = "readingMapping"
       /\ runEnds(run,
                  afterWrite(outcomeOf(readsOk(run.origin, run.mapping), originFile), written),
                  downloadOf(variant, run, originFile.name, now))

\* hyundai module: workbook.xlsx.writeBuffer() of a pending downloadExcel
\* settles; the file is saved, or the promise nobody awaits is rejected
WriteDone ==
  /\ variant = "hyundai"
  /\ \E made \in BagToSet(writes), written \in BOOLEAN :
       /\ writes' = writes (-) SetToBag({made})
       /\ download' = IF written THEN made ELSE download
  /\ UNCHANGED <<variant, now, originFile, mappingFile, result, earlier,
                 inSheet, inBlock, products, pc>>
  /\ UNCHANGED tabVars
  /\ UNCHANGED <<btnDisabled, status, wasmReady, wasmStatus, runs>>

NextUI ==
  \/ ChangeOrigin
  \/ ChangeMapping
  \/ WasmInit
  \/ Click
  \/ ReadsDone
  \/ OriginRead
  \/ MappingRead
  \/ WriteDone
SpecUI == InitUI /\ [][NextUI]_vars

\* ------------------------------------------------------------------------
\* Specification of the tab manager: DOMContentLoaded runs createTabs; from
\* then on converters are registered, up to MaxConverters in the registry,
\* and switchTab is called with any id, registered or not
\* ------------------------------------------------------------------------
MaxConverters == 3
\* the ids switchTab is called with; no converter is ever registered as "z"
TabIds == {"hyundai", "x", "y", "z"}
\* what registerConverter is given: converters with an init and without,
\* one of them under the id of the converter already there
NewConverters ==
  { [id |-> "x", init |-> TRUE], [id |-> "x", init |-> FALSE],
    [id |-> "y", init |-> TRUE], [id |-> "y", init |-> FALSE],
    [id |-> "hyundai", init |-> TRUE] }

InitTabs ==
  /\ variant = "hyundai"
  /\ now = ClockEpoch
  /\ originFile = NoFile
  /\ mappingFile = NoFile
  /\ result = NoResult
  /\ earlier = NoResult
  /\ inSheet = Sheet4
  /\ inBlock = <<>>
  /\ products = <<>>
  /\ pc = "ready"
  /\ UILoaded

\* the button and the content createTabs and addConverterTab append
newTab(id, active) ==
  [id |-> id, btnActive |-> active, contentActive |-> active, initialized |-> FALSE]

\* the first index of q whose entry has the id, 0 when there is none:
\* document.getElementById, converters.find
firstWithId(q, id) ==
  IF \E i \in 1..Len(q) : q[i].id = id
  THEN Min({i \in 1..Len(q) : q[i].id = id})
  ELSE 0

\* initializeTab, given the tab content t and the converter c found (0 when
\* there is none): a TypeError when there is no tab content; nothing when
\* it is initialized already or the converter has no init; else init is
\* called and the content marked
initialized(cs, calls, ts, t, c) ==
  IF t = 0 THEN [threw |-> TRUE, tabs |-> ts, initCalls |-> calls]
  ELSE IF ts[t].initialized \/ c = 0 THEN [threw |-> FALSE, tabs |-> ts, initCalls |-> calls]
  ELSE IF ~cs[c].init THEN [threw |-> FALSE, tabs |-> ts, initCalls |-> calls]
  ELSE [threw |-> FALSE,
        tabs |-> [ts EXCEPT ![t].initialized = TRUE],
        initCalls |-> [calls EXCEPT ![c] = @ + 1]]
initializeTab(cs, calls, ts, tabId) ==
  initialized(cs, calls, ts, firstWithId(ts, tabId), firstWithId(cs, tabId))

\* the end of createTabs and of switchTab: activeTab is assigned unless
\* initializeTab threw
tabsAfter(r, tabId) ==
  /\ tabs' = r.tabs
  /\ initCalls' = r.initCalls
  /\ activeTab' = IF r.threw THEN activeTab ELSE tabId

\* createTabs, once, on DOMContentLoaded
CreateTabs ==
  /\ tabs = <<>>
  /\ converters # <<>>
  /\ tabsAfter(initializeTab(converters, initCalls,
                             [i \in 1..Len(converters) |-> newTab(converters[i].id, i = 1)],
                             converters[1].id),
               converters[1].id)
  /\ UNCHANGED <<variant, now, originFile, mappingFile, result, earlier,
                 inSheet, inBlock, products, pc, uiVars, converters>>

\* classList.toggle('active', ...) on every tab button and tab content
marked(ts, tabId) ==
  [i \in 1..Len(ts) |-> [ts[i] EXCEPT !.btnActive = (ts[i].id = tabId),
                                      !.contentActive = (ts[i].id = tabId)]]

\* switchTab(tabId)
switchTab(tabId) ==
  /\ IF activeTab = tabId
     THEN UNCHANGED <<tabs, initCalls, activeTab>>
     ELSE tabsAfter(initializeTab(converters, initCalls, marked(tabs, tabId), tabId), tabId)
  /\ UNCHANGED <<variant, now, originFile, mappingFile, result, earlier,
                 inSheet, inBlock, products, pc, uiVars, converters>>
SwitchTab ==
  /\ tabs # <<>>
  /\ \E tabId \in TabIds : switchTab(tabId)

\* registerConverter(converter), the tab list being in the document
RegisterConverter ==
  /\ tabs # <<>>
  /\ Len(converters) < MaxConverters
  /\ \E c \in NewConverters :
       /\ converters' = Append(converters, c)
       /\ initCalls' = Append(initCalls, 0)
       /\ tabs' = Append(tabs, newTab(c.id, FALSE))
  /\ UNCHANGED <<variant, now, originFile, mappingFile, result, earlier,
                 inSheet, inBlock, products, pc, uiVars, activeTab>>

NextTabs == CreateTabs \/ SwitchTab \/ RegisterConverter
SpecTabs == InitTabs /\ [][NextTabs]_vars

\* ------------------------------------------------------------------------
\* Specification of the product window: a block anchored at row 10 followed
\* by up to maxProducts + MaxBeyond product rows numbered from one, each with
\* a name of its own, one of them possibly without a name; the three rows
\* between the anchor and the first product row are empty or look like
\* product rows
\* ------------------------------------------------------------------------
MaxBeyond == 2
MaxGap == 3
numberedName(letter, i) == Str(<<letter>> \o NatToStr(i))
\* n product rows, the one at `gap` (if any) without a product name
numberedRows(n, gap) ==
  [i \in 1..n |-> [no |-> Num(i),
                   name |-> IF i = gap THEN Null ELSE numberedName("P", i),
                   box |-> Num(i)]]
\* cells in the rows between the anchor row and the first product row
headerCells(f, anchorRow, filled) ==
  IF ~filled THEN {}
  ELSE UNION {{<<anchorRow + h, f.colNo, Num(h)>>,
               <<anchorRow + h, f.colNo + 3, numberedName("H", h)>>,
               <<anchorRow + h, f.colNo + 4, Num(9)>>} : h \in 1..(HeaderRows - 1)}

InitWindow ==
  /\ variant \in Variants
  /\ now = 0
  /\ originFile = NoFile
  /\ mappingFile = NoFile
  /\ result = NoResult
  /\ earlier = NoResult
  /\ \E n \in 0..(maxProducts + MaxBeyond), gap \in 0..MaxGap, filled \in BOOLEAN :
       inSheet = sheetOf(blockCells(hyundaiFamilies[1], 10, AnchorA, numberedRows(n, gap),
                                    Str(<<" ", "p", "m">>))
                         \cup headerCells(hyundaiFamilies[1], 10, filled))
  /\ inBlock = findStoreBlocks(variant, inSheet)[1]
  /\ products = <<>>
  /\ pc = "ready"
  /\ UILoaded

SpecWindow == InitWindow /\ [][Extract]_vars

\* ------------------------------------------------------------------------
\* Specification of findStoreBlocks: a sheet whose rows 1..MaxAnchorRows
\* hold, in each of the columns B, K and T, a store anchor, another text or
\* nothing, with one product row under every such cell; the blocks are
\* found, then a workbook with that sheet on two weekdays is converted
\* ------------------------------------------------------------------------
MaxAnchorRows == 2
AnchorCols == {ColB, ColK, ColT}
AnchorKinds == {"none", "store", "text"}
\* another text is placed in column B only
Layouts ==
  {layout \in [(1..MaxAnchorRows) \X AnchorCols -> AnchorKinds] :
     \A site \in DOMAIN layout : layout[site] = "text" => site[2] = ColB}
\* the store and product names of the site (row, column): "S1B", "P5B"
SiteStore(r, c) == <<"S", Digits[r + 1]>> \o colStr(c - 1)
SiteProduct(pr, c) == <<"P", Digits[pr + 1]>> \o colStr(c - 1)
NoMarkerText == Str(<<"x", " ", ":", " ", "3">>)
siteCells(r, c, kind) ==
  {<<r, c, IF kind = "store" THEN Anchor(SiteStore(r, c))
           ELSE IF kind = "text" THEN NoMarkerText ELSE Null>>,
   <<r + HeaderRows, c, Num(r)>>,
   <<r + HeaderRows, c + 3, Str(SiteProduct(r + HeaderRows, c))>>,
   <<r + HeaderRows, c + 4, Num(r + c)>>}
layoutSheet(layout) ==
  sheetOf(UNION {siteCells(site[1], site[2], layout[site]) : site \in DOMAIN layout})
\* the sheet on Monday and Thursday, Thursday first in SheetNames
twoDayWorkbook(sheet) ==
  [SheetNames |-> <<dayNames[4], OtherSheetName, dayNames[1]>>,
   Sheets |-> [n \in {dayNames[1], dayNames[4], OtherSheetName} |->
                 IF n = OtherSheetName THEN Sheet1 ELSE sheet]]

InitBlocks ==
  /\ variant \in Variants
  /\ now = ClockEpoch
  /\ \E layout \in Layouts : inSheet = layoutSheet(layout)
  /\ originFile = [name |-> WeekFileName, present |-> TRUE, workbook |-> twoDayWorkbook(inSheet)]
  /\ mappingFile = [name |-> <<"m">>, present |-> TRUE, rows |-> <<>>]
  /\ result = NoResult
  /\ earlier = NoResult
  /\ inBlock = <<>>
  /\ products = <<>>
  /\ pc = "ready"
  /\ UILoaded

\* findStoreBlocks(sheet)
FindBlocks ==
  /\ pc = "ready"
  /\ result' = [present |-> FALSE, blocks |-> findStoreBlocks(variant, inSheet)]
  /\ pc' = "found"
  /\ UNCHANGED <<variant, now, originFile, mappingFile, earlier, inSheet, inBlock, products>>
  /\ UNCHANGED tabVars
  /\ UNCHANGED uiVars

\* the conversion of the workbook
ConvertBlocks ==
  /\ pc = "found"
  /\ result' = [present |-> TRUE, blocks |-> result.blocks,
                out |-> convertData(variant, originFile.workbook,
                                    parseMappingTable(mappingFile.rows),
                                    originFile.name, now)]
  /\ pc' = "done"
  /\ UNCHANGED <<variant, now, originFile, mappingFile, earlier, inSheet, inBlock, products>>
  /\ UNCHANGED tabVars
  /\ UNCHANGED uiVars

NextBlocks == FindBlocks \/ ConvertBlocks
SpecBlocks == InitBlocks /\ [][NextBlocks]_vars

\* ------------------------------------------------------------------------
\* Specification of the store summary: the sheets of SpecBlocks converted
\* under mapping tables that give two stores the same code and system name,
\* different ones, or ones that differ only in where an underscore falls
\* ------------------------------------------------------------------------
SharedTable ==
  <<MappingRow(Str(SiteStore(1, ColB)), Str(<<"c", "1">>), Str(<<"A", "l", "p", "h", "a">>)),
    MappingRow(Str(SiteStore(2, ColB)), Str(<<"c", "1">>), Str(<<"A", "l", "p", "h", "a">>)),
    MappingRow(Str(SiteStore(1, ColK)), Str(<<"c", "1">>), Str(<<"B", "e", "t", "a">>))>>
UnderscoreTable ==
  <<MappingRow(Str(SiteStore(1, ColB)), Str(<<"1">>), Str(<<"a", "_", "b">>)),
    MappingRow(Str(SiteStore(2, ColB)), Str(<<"1">>), Str(<<"a", "_", "b">>)),
    MappingRow(Str(SiteStore(1, ColK)), Str(<<"1", "_", "a">>), Str(<<"b">>))>>
SummaryTables == {<<>>, SharedTable, UnderscoreTable}

InitSummary ==
  /\ variant \in Variants
  /\ now = ClockEpoch
  /\ \E layout \in Layouts : inSheet = layoutSheet(layout)
  /\ originFile = [name |-> WeekFileName, present |-> TRUE, workbook |-> twoDayWorkbook(inSheet)]
  /\ \E rows \in SummaryTables : mappingFile = [name |-> <<"m">>, present |-> TRUE, rows |-> rows]
  /\ result = NoResult
  /\ earlier = NoResult
  /\ inBlock = <<>>
  /\ products = <<>>
  /\ pc = "ready"
  /\ UILoaded

SpecSummary == InitSummary /\ [][NextBlocks]_vars

\* ------------------------------------------------------------------------
\* Specification of extractStoreName: the anchor cell B1 of a sheet holds
\* nothing, a number, or any string of at most MaxCellLen characters over
\* the marker, a space, a letter, the colon and a line break; the name is
\* extracted and the blocks of the sheet are found
\* ------------------------------------------------------------------------
MaxCellLen == 5
CellAlphabet == {MARKER, " ", "A", ":", "\n"}
CellStrings == UNION {[1..n -> CellAlphabet] : n \in 0..MaxCellLen}
\* "<marker> Downtown Store : 3"
DowntownStore == <<"D", "o", "w", "n", "t", "o", "w", "n", " ", "S", "t", "o", "r", "e">>
AnchorCellValues ==
  {Null, Num(3), Anchor(DowntownStore)} \cup {Str(cs) : cs \in CellStrings}

InitStoreName ==
  /\ variant \in Variants
  /\ now = ClockEpoch
  /\ \E cell \in AnchorCellValues : inSheet = sheetOf({<<1, ColB, cell>>})
  /\ originFile = NoFile
  /\ mappingFile = NoFile
  /\ result = NoResult
  /\ earlier = NoResult
  /\ inBlock = <<>>
  /\ products = <<>>
  /\ pc = "ready"
  /\ UILoaded

\* extractStoreName(bVal) and findStoreBlocks(sheet)
ExtractStoreName ==
  /\ pc = "ready"
  /\ result' = [present |-> TRUE,
                name |-> extractStoreName(getCellValue(inSheet, 1, ColB)),
                blocks |-> findStoreBlocks(variant, inSheet)]
  /\ pc' = "done"
  /\ UNCHANGED <<variant, now, originFile, mappingFile, earlier, inSheet, inBlock, products>>
  /\ UNCHANGED tabVars
  /\ UNCHANGED uiVars

SpecStoreName == InitStoreName /\ [][ExtractStoreName]_vars

\* ------------------------------------------------------------------------
\* Properties of extractProductsFromBlock
\* ------------------------------------------------------------------------
firstProductRow == inBlock.row + HeaderRows
windowRows == firstProductRow..(firstProductRow + maxProducts - 1)
noCell(row) == getCellValue(inSheet, row, inBlock.colNo)
nameCell(row) == getCellValue(inSheet, row, inBlock.colProduct)
boxCell(row) == getCellValue(inSheet, row, inBlock.colBox)
\* the rows of the window whose sequence-number cell is null or not a number
endRows == {r \in windowRows : noCell(r) = Null \/ parseInt(noCell(r)).nan}
\* the sheet without the cells of the given row and of every row below it
cutFrom(sheet, row) == [a \in {b \in DOMAIN sheet : b[2] < row} |-> sheet[a]]
\* a row that would give a line if it were read
validRow(r) ==
  /\ ~parseInt(noCell(r)).nan
  /\ Truthy(nameCell(r))
  /\ parseIntOrZero(boxCell(r)) > 0

\* C1: the first row of the window whose sequence-number cell is null or
\* does not parse as an integer ends the block: what is extracted is what
\* would be extracted if that row and all rows below it were empty, and
\* there are no more lines than rows above it.
C1_FirstBadSeqEndsBlock ==
  (pc = "done" /\ endRows # {}) =>
     /\ products = extractProductsFromBlock(variant, cutFrom(inSheet, Min(endRows)),
                                            inBlock, maxProducts)
     /\ Len(products) <= Min(endRows) - firstProductRow

\* C1 witness: extraction ran on a block whose first product row ends it
\* (text in the sequence cell) while the next row is a valid product row.
C1_Witness ==
  /\ pc = "done"
  /\ noCell(firstProductRow) = Str(<<"x">>)
  /\ validRow(firstProductRow + 1)
  /\ products = <<>>

\* the rows of the window that are read: those above the first ending row
readRows == {r \in windowRows : \A e \in endRows : r < e}
\* the read rows with a product name and a quantity other than zero
emittingRows ==
  {r \in readRows : Truthy(nameCell(r)) /\ parseIntOrZero(boxCell(r)) # 0}

\* C2: a row with a sequence number and an empty or null product-name cell
\* gives no line and does not end the block (the lines are exactly those of
\* the read rows with a name and a non-zero quantity), and so every line has
\* a non-empty product name.
C2_BlankNameSkippedNamesNonEmpty ==
  pc = "done" =>
     /\ Len(products) = Cardinality(emittingRows)
     /\ \A i \in 1..Len(products) : products[i].productName # <<>>

\* C3: every product line has a quantity strictly greater than zero.
C3_BoxQtyPositive ==
  pc = "done" => \A i \in 1..Len(products) : products[i].boxQty > 0

\* ------------------------------------------------------------------------
\* Properties of one conversion
\* ------------------------------------------------------------------------
\* the sum of the box quantities of the Data rows with index in S
RECURSIVE dataBoxes(_)
dataBoxes(S) ==
  IF S = {} THEN 0
  ELSE LET j == CHOOSE y \in S : TRUE IN result.data[j].boxQty + dataBoxes(S \ {j})

\* the sum of the extracted sums of the validation rows with index in S
RECURSIVE validationBoxes(_)
validationBoxes(S) ==
  IF S = {} THEN 0
  ELSE LET i == CHOOSE y \in S : TRUE
       IN result.validation[i].extractedBox + validationBoxes(S \ {i})

validationBox(i) == result.validation[i].extractedBox
dataIdx == 1..Len(result.data)
validationIdx == 1..Len(result.validation)
\* the weekdays that have a sheet in the selected origin workbook
presentDays == {k \in 1..Len(dayNames) : dayNames[k] \in Range(originFile.workbook.SheetNames)}
\* the blocks of weekday k, as the conversion finds them
blocksOfDay(k) == findStoreBlocks(variant, originFile.workbook.Sheets[dayNames[k]])
\* the mapping table of the selected mapping file
tableEntries == parseMappingTable(mappingFile.rows)

\* C4: the extracted sum of every validation row is the sum of the box
\* quantities of exactly the Data rows that carry its date; over all
\* validation rows every Data row is counted once.
C4_ExtractedSumPerDate ==
  pc = "done" =>
     /\ \A i \in validationIdx :
          validationBox(i) =
            dataBoxes({j \in dataIdx : result.data[j].date = result.validation[i].date})
     /\ validationBoxes(validationIdx) = dataBoxes(dataIdx)

\* C4 witness: a conversion gave Data rows of two dates, and two validation
\* rows with different sums, neither of them zero.
C4_Witness ==
  /\ pc = "done"
  /\ \E i, j \in validationIdx :
       /\ validationBox(i) # 0 /\ validationBox(j) # 0
       /\ validationBox(i) # validationBox(j)
       /\ result.validation[i].date # result.validation[j].date

\* the Data rows a block must give: the code and name of its table entry, or
\* the failure code and the prefixed store name when the table has no entry
\* for it, with the product lines of the block in both cases
expectedBlockRows(k, block) ==
  LET ps == extractProductsFromBlock(variant, originFile.workbook.Sheets[dayNames[k]],
                                     block, maxProducts)
      hit == block.storeName \in DOMAIN tableEntries
  IN [i \in 1..Len(ps) |->
        [code |-> IF hit THEN tableEntries[block.storeName].code ELSE Str(MAPPING_FAILED),
         storeName |-> IF hit THEN tableEntries[block.storeName].systemName
                       ELSE Str(FailPrefix \o block.storeName),
         productName |-> ps[i].productName,
         boxQty |-> ps[i].boxQty]]

expectedRows ==
  Concat([k \in 1..Len(dayNames) |->
            IF k \notin presentDays THEN <<>>
            ELSE Concat([b \in 1..Len(blocksOfDay(k)) |->
                           expectedBlockRows(k, blocksOfDay(k)[b])])])

\* C5: the rows of a block without a table entry carry the failure code and
\* the prefixed store name, the rows of a block with an entry carry its code
\* and system name, and the product lines are the same in both cases.
C5_MappingOfRows ==
  pc = "done" =>
     [j \in dataIdx |->
        [code |-> result.data[j].code, storeName |-> result.data[j].storeName,
         productName |-> result.data[j].productName, boxQty |-> result.data[j].boxQty]]
       = expectedRows

\* the store names of the blocks on the weekday sheets that have no entry
unmappedStores ==
  {n \in UNION {{blocksOfDay(k)[b].storeName : b \in 1..Len(blocksOfDay(k))} : k \in presentDays} :
     n \notin DOMAIN tableEntries}

\* C6: the failure list holds every store name found on a weekday sheet that
\* has no table entry, each once, and no other name.
C6_FailuresListedOnce ==
  pc = "done" =>
     /\ Range(result.mappingFailures) = unmappedStores
     /\ Len(result.mappingFailures) = Cardinality(unmappedStores)

\* the reference sum of a validation row as the claim names it: the
\* originalStoreSum column, which only the legacy script has
storeSumKnown(row) == "originalStoreSum" \in DOMAIN row
storeSumOf(row) == IF storeSumKnown(row) THEN row.originalStoreSum ELSE 0

\* C7 as stated: match iff the extracted sum equals originalStoreSum and that
\* is positive, no-data iff originalStoreSum is not positive or unavailable,
\* otherwise mismatch with the difference.
C7_AsStated ==
  pc = "done" =>
     \A i \in validationIdx :
        LET row == result.validation[i]
            noData == ~storeSumKnown(row) \/ storeSumOf(row) <= 0
            same == storeSumKnown(row) /\ storeSumOf(row) > 0
                    /\ row.extractedBox = storeSumOf(row)
        IN /\ (row.matchResult.kind = "match") = same
           /\ (row.matchResult.kind = "nodata") = noData
           /\ (~same /\ ~noData) =>
                /\ row.matchResult.kind = "mismatch"
                /\ row.matchResult.diff = row.extractedBox - storeSumOf(row)

\* the sum a validation row is compared with: originalStoreSum in the legacy
\* script, the total cell F8 (originalBox) in the hyundai module
referenceSum(row) == IF variant = "legacy" THEN row.originalStoreSum ELSE row.originalBox

\* C7 amended: with the reference sum of the variant, match iff the
\* extracted sum equals it and it is positive, no-data iff it is not
\* positive, otherwise mismatch with diff = extracted - reference; exactly
\* one of the three holds.
C7_ClassifiedByReferenceSum ==
  pc = "done" =>
     \A i \in validationIdx :
        LET row == result.validation[i]
            ref == referenceSum(row)
        IN /\ (row.matchResult.kind = "match") = (ref > 0 /\ row.extractedBox = ref)
           /\ (row.matchResult.kind = "nodata") = (ref <= 0)
           /\ (row.matchResult.kind = "mismatch") = (ref > 0 /\ row.extractedBox # ref)
           /\ row.matchResult.kind = "mismatch" =>
                row.matchResult.diff = row.extractedBox - ref
           /\ row.matchResult.kind \in {"match", "mismatch", "nodata"}

\* C7 witness: one conversion of the hyundai module gave a matching row, a
\* mismatching row with its difference, and the total cell decided both.
C7_Witness ==
  /\ pc = "done"
  /\ variant = "hyundai"
  /\ \E i, j \in validationIdx :
       /\ result.validation[i].matchResult.kind = "match"
       /\ result.validation[j].matchResult.kind = "mismatch"
       /\ result.validation[j].matchResult.diff # 0

\* the weekday labels that have a sheet, in the fixed order
RECURSIVE presentFrom(_)
presentFrom(k) ==
  IF k > Len(dayNames) THEN <<>>
  ELSE (IF k \in presentDays THEN <<dayNames[k]>> ELSE <<>>) \o presentFrom(k + 1)

\* C10: the validation rows are those of the weekday labels that have a
\* sheet, one each, in the fixed order; a weekday without a sheet gives no
\* validation row and no Data row.
C10_ValidationRowsOfPresentDays ==
  pc = "done" =>
     /\ [i \in validationIdx |-> result.validation[i].dayName] = presentFrom(1)
     /\ \A j \in dataIdx :
          \E k \in presentDays :
             result.data[j].date =
               formatDate(dayDate(extractDateFromFileName(variant, originFile.name, now), k))

\* ------------------------------------------------------------------------
\* Properties of extractDateFromFileName
\* ------------------------------------------------------------------------
\* a file name in which the day-range pattern or the year-month pattern fails
patternFails(fileName) == dateMatch(fileName) = <<>> \/ yearMatch(fileName) = <<>>

\* C8: every call on a file name in which one of the two patterns fails
\* returns the same date, whenever it is made: two such calls, the clock
\* having advanced between them or not, agree.
C8_FallbackDateFixed ==
  (result.present /\ earlier.present
     /\ patternFails(result.fileName) /\ patternFails(earlier.fileName))
    => result.date = earlier.date

\* ------------------------------------------------------------------------
\* Properties of repeated runs
\* ------------------------------------------------------------------------
\* C9: two runs on the same origin workbook, origin file name and mapping
\* table give the same Data, Validation and Store Summary rows and the same
\* failure list, whatever happened between them.
C9_SameInputsSameOutputs ==
  (result.present /\ earlier.present
     /\ result.origin = earlier.origin /\ result.mapping = earlier.mapping)
    => result.out = earlier.out

\* the text of a date, as the rows show it
DateText(y4, m2, d2) == y4 \o <<"-">> \o m2 \o <<"-">> \o d2
Y2025 == <<"2", "0", "2", "5">>
Y2026 == <<"2", "0", "2", "6">>
\* the weeks the three file names with both patterns stand for
ExpectedWeek(fileName) ==
  IF fileName = FullYearFileName
  THEN <<DateText(Y2026, <<"0", "1">>, <<"1", "2">>), DateText(Y2026, <<"0", "1">>, <<"1", "3">>),
         DateText(Y2026, <<"0", "1">>, <<"1", "4">>), DateText(Y2026, <<"0", "1">>, <<"1", "5">>),
         DateText(Y2026, <<"0", "1">>, <<"1", "6">>)>>
  ELSE IF fileName = WeekFileName
  THEN <<DateText(Y2026, <<"0", "1">>, <<"3", "0">>), DateText(Y2026, <<"0", "1">>, <<"3", "1">>),
         DateText(Y2026, <<"0", "2">>, <<"0", "1">>), DateText(Y2026, <<"0", "2">>, <<"0", "2">>),
         DateText(Y2026, <<"0", "2">>, <<"0", "3">>)>>
  ELSE <<DateText(Y2025, <<"1", "2">>, <<"2", "9">>), DateText(Y2025, <<"1", "2">>, <<"3", "0">>),
         DateText(Y2025, <<"1", "2">>, <<"3", "1">>), DateText(Y2026, <<"0", "1">>, <<"0", "1">>),
         DateText(Y2026, <<"0", "1">>, <<"0", "2">>)>>

\* C11: when both patterns match, the five weekday dates are the base date
\* the file name states (a two-digit year raised by 2000) and the four
\* calendar days after it, in weekday order, all distinct, also across the
\* end of a month or a year, whatever the variant and the clock.
C11_WeekdayDatesConsecutive ==
  (result.present /\ ~patternFails(result.fileName)) =>
     /\ result.dayDates = ExpectedWeek(result.fileName)
     /\ \A i, j \in 1..Len(dayNames) : i # j => result.dayDates[i] # result.dayDates[j]

\* C11 witness: the function was called, after the clock advanced, on the
\* file name whose week crosses the end of the year.
C11_Witness ==
  /\ result.present
  /\ result.fileName = OtherWeekFileName
  /\ now > ClockEpoch
  /\ result.dayDates[4] = DateText(Y2026, <<"0", "1">>, <<"0", "1">>)

\* ------------------------------------------------------------------------
\* Properties of findStoreBlocks
\* ------------------------------------------------------------------------
\* the columns of the families in their order: B, K in the stand-alone
\* script, B, K, T in the hyundai module
ExpectedCols == IF variant = "legacy" THEN <<2, 11>> ELSE <<2, 11, 20>>
\* whether the site (row, column) of the sheet holds a store anchor
siteHasStore(r, c) == getCellValue(inSheet, r, c) = Anchor(SiteStore(r, c))
\* the blocks expected: row by row, within a row in family order
ExpectedBlocks ==
  Concat([r \in 1..MaxAnchorRows |->
            Concat([f \in 1..Len(ExpectedCols) |->
                      IF siteHasStore(r, ExpectedCols[f])
                      THEN <<[row |-> r, colNo |-> ExpectedCols[f],
                              storeName |-> SiteStore(r, ExpectedCols[f])]>>
                      ELSE <<>>])])
\* the Data rows expected of one block on one date: its product rows, from
\* the fifth row of the block down to the last product row of the sheet
ExpectedBlockLines(dateText, b) ==
  [i \in 1..(MaxAnchorRows - b.row + 1) |->
     [date |-> dateText, storeName |-> Str(FailPrefix \o b.storeName),
      productName |-> SiteProduct(b.row + HeaderRows + i - 1, b.colNo)]]
ExpectedDayLines(dateText) ==
  Concat([i \in 1..Len(ExpectedBlocks) |-> ExpectedBlockLines(dateText, ExpectedBlocks[i])])
ExpectedLines ==
  ExpectedDayLines(ExpectedWeek(WeekFileName)[1])
    \o ExpectedDayLines(ExpectedWeek(WeekFileName)[4])

\* C12: findStoreBlocks returns one block for every row and family whose
\* anchor cell holds a store, also two or three on one row, ordered by row
\* and within a row by family (B, K, then T where configured); the Data
\* rows keep that order: weekday, then block, then product row.
C12_BlocksInScanOrder ==
  /\ pc \in {"found", "done"} =>
       [i \in 1..Len(result.blocks) |->
          [row |-> result.blocks[i].row, colNo |-> result.blocks[i].colNo,
           storeName |-> result.blocks[i].storeName]] = ExpectedBlocks
  /\ pc = "done" =>
       [j \in 1..Len(result.out.data) |->
          [date |-> result.out.data[j].date, storeName |-> result.out.data[j].storeName,
           productName |-> result.out.data[j].productName]] = ExpectedLines

\* C12 witness: the sheet has stores in B, K and T of its first row and in
\* B of its second, the hyundai module found the four blocks and converted.
C12_Witness ==
  /\ pc = "done"
  /\ variant = "hyundai"
  /\ siteHasStore(1, 2) /\ siteHasStore(1, 11) /\ siteHasStore(1, 20) /\ siteHasStore(2, 2)
  /\ Len(result.blocks) >= 4
  /\ Len(result.out.data) >= 10

\* ------------------------------------------------------------------------
\* Properties of extractStoreName
\* ------------------------------------------------------------------------
anchorCell == getCellValue(inSheet, 1, ColB)
\* the text of s between the indices i and j, without surrounding white space
Between(s, i, j) == Trim(SubSeq(s, i + 1, j - 1))
\* the colons that, with the marker at i, enclose a non-empty name
ClosingColons(s, i) == {j \in (i + 1)..Len(s) : s[j] = ":" /\ Between(s, i, j) # <<>>}
\* the markers of s that are followed by a non-empty name and a colon
NamingMarkers(s) == {i \in 1..Len(s) : s[i] = MARKER /\ ClosingColons(s, i) # {}}
\* the name a string states: the text between its first such marker and the
\* nearest such colon
StatedName(s) == Between(s, Min(NamingMarkers(s)), Min(ClosingColons(s, Min(NamingMarkers(s)))))
\* whether a cell value states a name at all
StatesName(v) == v.t = "s" /\ NamingMarkers(v.s) # {}

\* C13: a name, and a block, is obtained from an anchor cell exactly when
\* the cell is a string holding the marker followed, after optional white
\* space, by a non-empty name and a colon; the name is the text between the
\* marker and the colon without surrounding white space.  Otherwise there
\* is no name and no block.
C13_NameIffMarkerNameColon ==
  pc = "done" =>
     IF StatesName(anchorCell)
     THEN /\ result.name = Str(StatedName(anchorCell.s))
          /\ Len(result.blocks) = 1
          /\ result.blocks[1].storeName = StatedName(anchorCell.s)
     ELSE /\ ~Truthy(result.name)
          /\ result.blocks = <<>>

\* ------------------------------------------------------------------------
\* Properties of the store summary
\* ------------------------------------------------------------------------
TripleOf(row) == <<row.date, row.code, row.storeName>>
\* the Data rows that are the first of their triple, ascending
FirstOfTriple(data) ==
  {i \in 1..Len(data) : \A j \in 1..(i - 1) : TripleOf(data[j]) # TripleOf(data[i])}
RECURSIVE Ascending(_)
Ascending(S) == IF S = {} THEN <<>> ELSE <<Min(S)>> \o Ascending(S \ {Min(S)})
RECURSIVE BoxOfTriple(_, _)
BoxOfTriple(data, triple) ==
  IF data = <<>> THEN 0
  ELSE (IF TripleOf(Head(data)) = triple THEN Head(data).boxQty ELSE 0)
       + BoxOfTriple(Tail(data), triple)
SummaryRowOf(data, i) ==
  [date |-> data[i].date, code |-> data[i].code, storeName |-> data[i].storeName,
   boxSum |-> BoxOfTriple(data, TripleOf(data[i]))]
SummaryRows(data, firsts) == [k \in 1..Len(firsts) |-> SummaryRowOf(data, firsts[k])]
ExpectedSummary(data) == SummaryRows(data, Ascending(FirstOfTriple(data)))

\* C14: the store summary has exactly one row per distinct (date, code,
\* display name) triple of the Data rows, its box sum is the sum of the box
\* quantities of the Data rows of that triple, rows of different triples
\* are never merged, and the rows are in order of first occurrence.
C14_SummaryRowPerTriple ==
  (pc = "done" /\ result.present) => result.out.storeDaily = ExpectedSummary(result.out.data)

\* ------------------------------------------------------------------------
\* Properties of the page
\* ------------------------------------------------------------------------
\* C15: whatever files have been selected, replaced or removed, the convert
\* button is enabled exactly when both an origin file and a mapping file
\* are currently selected; it is disabled when the page has loaded.
C15_ButtonIffBothFiles ==
  btnDisabled = ~(originFile.present /\ mappingFile.present)
\* the button is disabled again after a file was removed: a click has been
\* made, so both files had been selected
C15_Witness ==
  /\ btnDisabled
  /\ BagCardinality(runs) > 0
  /\ originFile.present
  /\ ~mappingFile.present

\* the invocation `run` of the click handler ends in this step
Ends(run) == runs' = runs (-) SetToBag({run})
\* the invocation `run` starts in this step
Starts(run) == run.stage = "reading" /\ CopiesIn(run, runs') > CopiesIn(run, runs)
\* a read of the invocation fails: that of the origin file, or that of the
\* mapping file once it has been started
ReadFailed(run) == ~run.origin.readable \/ (run.mapping.present /\ ~run.mapping.readable)

\* the file is handed to downloadExcel in this step
HandedOver(file) ==
  IF variant = "hyundai" THEN writes' = writes (+) SetToBag({file}) ELSE download' = file

\* C16: at most one conversion is in flight at any time: after a click has
\* started a run, no second run starts before the first has finished.
C16_OneRunInFlight == BagCardinality(runs) <= 1

\* C17: when the read or the parse of either input file fails, the run
\* ends without handing a file to the download, and it ends with the status
\* 'error' and a message, never with 'success'.
C17_FailedReadEndsInError ==
  [][\A run \in BagToSet(runs) :
       (Ends(run) /\ ReadFailed(run)) =>
          /\ status'.type = "error"
          /\ status'.message # ""
          /\ writes' = writes
          /\ download' = download]_vars
\* a run has ended on a failed read, with the mapping file that cannot be
\* read selected; nothing has been downloaded
C17_Witness ==
  /\ status.type = "error"
  /\ status.message = "read"
  /\ runs = EmptyBag
  /\ originFile.present /\ originFile.readable
  /\ mappingFile.present /\ ~mappingFile.readable
  /\ download = NoResult

\* C18: a failed load of the WASM module shows no error, blocks nothing
\* and leaves wasmReady false; a run takes the WASM path, and reports the
\* mode 'WASM', only if the module was ready when the run started; every
\* other run, one started while the module was still loading included,
\* takes the JS path and reports the mode 'JS'.
C18_WasmFailureFallsBackToJS ==
  [][/\ (wasmStatus = "loading" /\ wasmStatus' = "fallback") =>
          /\ ~wasmReady'
          /\ status' = status
          /\ btnDisabled' = btnDisabled
          /\ runs' = runs
     /\ wasmStatus' \in {"none", "loading", "fallback"} => ~wasmReady'
     /\ \A run \in BagToSet(runs') :
          Starts(run) => run.mode = (IF wasmStatus = "ready" THEN "WASM" ELSE "JS")
     /\ \A run \in BagToSet(runs) :
          (Ends(run) /\ status'.type = "success" /\ variant = "hyundai") =>
             status'.mode = run.mode]_vars
\* after the load has failed, a run has succeeded in the mode JS
C18_Witness ==
  /\ wasmStatus = "fallback"
  /\ status.type = "success"
  /\ status.mode = "JS"
  /\ download # NoResult

\* C20: a run works on one snapshot of the inputs: the workbook converted,
\* the file name the dates are taken from and the file name the output is
\* named after all belong to the origin file that was selected when the
\* button was clicked, whatever is selected while the run awaits its reads.
C20_RunUsesFileOfClick ==
  [][\A run \in BagToSet(runs) :
       (Ends(run) /\ status'.type = "success") =>
          HandedOver(downloadOf(variant, run, run.origin.name, now))]_vars

\* ------------------------------------------------------------------------
\* Properties of the product window
\* ------------------------------------------------------------------------
\* the names of the rows of S, from the top row down
NamesOfRows(rows) == [k \in 1..Len(rows) |-> Trim(JSString(nameCell(rows[k])))]
ProductNames == [i \in 1..Len(products) |-> products[i].productName]

\* C19: extraction reads only the rows anchorRow+4 .. anchorRow+4+maxProducts-1:
\* the rows between the anchor and the window give no line, no row below
\* the window gives a line, there are at most maxProducts lines, and the
\* lines are in ascending row order (every row of these sheets has a name
\* of its own, so the names tell the rows).
C19_OnlyWindowRowsRead ==
  pc = "done" =>
     /\ Len(products) <= maxProducts
     /\ ProductNames = NamesOfRows(Ascending(emittingRows))
\* the window is full, a product row lies right below it and the rows
\* right after the anchor look like product rows
C19_Witness ==
  /\ pc = "done"
  /\ Len(products) = maxProducts
  /\ validRow(firstProductRow + maxProducts)
  /\ validRow(inBlock.row + 1)
  /\ products[maxProducts].boxQty = maxProducts

\* C21: the status of a run becomes 'success' only once its output workbook
\* has been written and saved; a failure while the output workbook is
\* generated ends in the status 'error', not 'success'; and every run whose
\* reads have settled leaves the status 'processing'.
C21_SuccessOnlyAfterWritten ==
  [][/\ \A run \in BagToSet(runs) :
          Ends(run) =>
             /\ status'.type \in {"success", "error"}
             /\ status'.type = "success" => (writes' = writes /\ download'.present)
     /\ (BagCardinality(writes') < BagCardinality(writes) /\ download' = download) =>
          status'.type = "error"]_vars

\* ------------------------------------------------------------------------
\* Properties of the tab manager
\* ------------------------------------------------------------------------
ActiveButtons == {i \in 1..Len(tabs) : tabs[i].btnActive}
ActiveContents == {i \in 1..Len(tabs) : tabs[i].contentActive}

\* C22: once createTabs has run, whatever switchTab and registerConverter
\* calls follow: the init of every converter has been called at most once,
\* exactly one tab button is marked active and so is its tab content and
\* no other, and activeTab is the id of that tab.
C22_OneActiveTab ==
  tabs # <<>> =>
     /\ \A c \in 1..Len(initCalls) : initCalls[c] <= 1
     /\ Cardinality(ActiveButtons) = 1
     /\ ActiveContents = ActiveButtons
     /\ \A i \in ActiveButtons : tabs[i].id = activeTab

====
